---- MODULE Spec2Model ----
(***************************************************************************)
(* Model of code/profile.py: the profile crawler of the Kemono and Coomer   *)
(* downloader.  The script walks the listing pages of a profile, filters   *)
(* the collected posts by the settings of profileconfig.json, writes the    *)
(* run index posts_info.txt and calls download_content for every filtered   *)
(* post.  The script is sequential; one step of the model is one network    *)
(* request together with all the code that runs up to the next request.     *)
(*                                                                         *)
(* Strings that the code computes on (file names, URL paths, hosts) are     *)
(* sequences of one-character strings, so that sanitizing, splitting the    *)
(* extension and building the _duplicateN names are computed as the code     *)
(* computes them.  Strings the code only compares or copies are TLA+         *)
(* strings.                                                                 *)
(***************************************************************************)
EXTENDS Integers, Sequences, FiniteSets, TLC

VARIABLES
    config,            \* the settings loaded from profileconfig.json
    pc,                \* position of the script
    page_number,       \* pagination loop counter
    total_pages,       \* page count computed on page 0 (0: not yet bound)
    all_posts,         \* posts collected by the pagination loop
    filtered_posts,    \* posts selected by the filter loop
    posts_info,        \* records written to posts_info.txt, in file order
    index_writes,      \* number of times posts_info.txt has been written
    total_posts,       \* result of get_total_posts on page 0 (<<>>: None)
    fetched,           \* offsets (?o=) of the listing requests made, in order
    seen_pages,        \* post_cards of every listing page parsed, in order
    page_failed,       \* "Failed to retrieve page" was printed in this run
    post_idx,          \* index in filtered_posts of the post being downloaded
    soup,              \* parsed detail page of the post being downloaded
    post_path,         \* destination folder of the post being downloaded
    tag_idx,           \* index of the next tag in the running media loop
    downloaded_links,  \* the downloaded_links set of the running call
    requested,         \* media requests of the running / last call, in order
    info_browse,       \* browse URLs the last save_post_info call wrote
    media_ok,          \* media requests of that call that succeeded
    folders,           \* directories that exist on disk
    files,             \* files on disk: records [dir, name, src (the URL)]
    outcomes,          \* what each download_content call of this run did
    served,            \* number of post cards the site has served so far
    interrupted,       \* folders whose download_content call was killed
    run,               \* number of the run of the script (1: first run)
    attempts,          \* requests sent so far by the fetch under study
    response,          \* what the last of these requests ended in
    fetch_result,      \* "pending", "ok" or "error": how session.get ended
    raw_name,          \* argument of the sanitize_filename call under study
    sanitized          \* its result (<<>>: not called yet; <<r>>: returned r)

vars == <<config, pc, page_number, total_pages, all_posts, filtered_posts,
          posts_info, index_writes, total_posts, fetched, seen_pages,
          page_failed, post_idx, soup, post_path, tag_idx, downloaded_links,
          requested, info_browse, media_ok, folders, files, outcomes, served,
          interrupted, run,
          attempts, response, fetch_result, raw_name, sanitized>>

-----------------------------------------------------------------------------
(* Bounds of the model *)

\* largest number of post cards the site serves in a behaviour
MaxPosts == 2

\* largest number of runs of the script over the same disk
MaxRuns == 2

\* longest of the short names given to sanitize_filename
MaxShort == 2

\* by how many characters the long names given to sanitize_filename exceed
\* the longest name it returns
MaxOver == 2

-----------------------------------------------------------------------------
(* Program constants *)

\* posts per listing page: the offset step and the page-count divisor
PageSize == 50

\* longest file name sanitize_filename returns
MaxNameLen == 255

\* number of the first duplicate suffix
FirstCounter == 1

NoImage == "No image available"

NoAttachments == "No attachments"

-----------------------------------------------------------------------------
(* Character-level helpers *)

RECURSIVE IndexFrom(_, _, _)
\* least i >= start with IsPrefix(needle, s from i), 0 when there is none
IndexFrom(needle, s, start) ==
    IF start + Len(needle) - 1 > Len(s) THEN 0
    ELSE IF SubSeq(s, start, start + Len(needle) - 1) = needle THEN start
    ELSE IndexFrom(needle, s, start + 1)

\* Python's `needle in s` on strings
Contains(needle, s) == IndexFrom(needle, s, 1) # 0

\* index of the last occurrence of character c in s, 0 when there is none
LastIndexOf(c, s) ==
    LET hits == {i \in 1..Len(s) : s[i] = c}
    IN IF hits = {} THEN 0 ELSE CHOOSE i \in hits : \A j \in hits : j <= i

DigitChars == <<"0", "1", "2", "3", "4", "5", "6", "7", "8", "9">>

RECURSIVE Digits(_)
\* str(n) for n >= 0
Digits(n) ==
    IF n < 10 THEN <<DigitChars[n + 1]>>
    ELSE Digits(n \div 10) \o <<DigitChars[(n % 10) + 1]>>

-----------------------------------------------------------------------------
(* Pure functions of the script *)

ForbiddenChars == {"<", ">", ":", "\"", "/", "\\", "|", "?", "*"}

\* a sanitize_filename whose pattern leaves the backslash out
sanitize_filename_no_backslash(filename) ==
    LET replaced == [i \in 1..Len(filename) |->
                        IF filename[i] \in ForbiddenChars \ {"\\"} THEN "_"
                        ELSE filename[i]]
    IN SubSeq(replaced, 1, IF Len(replaced) < MaxNameLen THEN Len(replaced)
                           ELSE MaxNameLen)

\* sanitize_filename: re.sub(r'[<>:"/\\|?*]', '_', filename)[:255]
sanitize_filename(filename) ==
    LET replaced == [i \in 1..Len(filename) |->
                        IF filename[i] \in ForbiddenChars THEN "_"
                        ELSE filename[i]]
    IN SubSeq(replaced, 1, IF Len(replaced) < MaxNameLen THEN Len(replaced)
                           ELSE MaxNameLen)

\* os.path.basename of a URL path: what follows the last "/"
basename(path) == SubSeq(path, LastIndexOf("/", path) + 1, Len(path))

\* os.path.splitext of a name without "/": the extension starts at the last
\* dot unless only dots precede it
splitext(filename) ==
    LET dot == LastIndexOf(".", filename)
        lead == \A i \in 1..(dot - 1) : filename[i] = "."
    IN IF dot = 0 \/ lead
       THEN [base |-> filename, ext |-> <<>>]
       ELSE [base |-> SubSeq(filename, 1, dot - 1),
             ext |-> SubSeq(filename, dot, Len(filename))]

\* get_filename_from_url: query parameter f when present and not blank,
\* else the basename of the path; sanitized
get_filename_from_url(u) ==
    LET filename == IF u.f # <<>> THEN u.f ELSE basename(u.path)
    IN sanitize_filename(filename)

\* os.path.exists(post_path) that never finds the folder
FolderExistsNever(path) == FALSE

\* the skip test keyed on a completed download instead of the bare folder
FolderComplete(path) == path \in folders /\ path \notin interrupted

\* os.path.exists(post_path) of download_content
FolderExists(path) == path \in folders

\* an existence test on a wrongly joined path, which finds nothing
PathExistsNever(path, name) == FALSE

\* os.path.exists(os.path.join(path, name)); joining "" gives the folder
PathExists(path, name) ==
    IF name = <<>> THEN path \in folders
    ELSE \E f \in files : f.dir = path /\ f.name = name

DuplicateMark == <<"_", "d", "u", "p", "l", "i", "c", "a", "t", "e">>

RECURSIVE UniqueLoop(_, _, _, _)
\* the while loop of ensure_unique_filename
UniqueLoop(path, parts, new_filename, counter) ==
    IF PathExists(path, new_filename)
    THEN UniqueLoop(path, parts,
                    parts.base \o DuplicateMark \o Digits(counter) \o parts.ext,
                    counter + 1)
    ELSE new_filename

\* ensure_unique_filename that counts before it builds the name
ensure_unique_filename_countfirst(path, filename) ==
    UniqueLoop(path, splitext(filename), filename, FirstCounter + 1)

\* ensure_unique_filename(path, filename)
ensure_unique_filename(path, filename) ==
    UniqueLoop(path, splitext(filename), filename, FirstCounter)

KemonoSu == <<"k", "e", "m", "o", "n", "o", ".", "s", "u">>

KemonoParty == <<"k", "e", "m", "o", "n", "o", ".", "p", "a", "r", "t", "y">>

\* base_folder of download_content, from the netloc of the post URL
BaseFolder(link) ==
    IF Contains(KemonoSu, link.netloc) \/ Contains(KemonoParty, link.netloc)
    THEN "Kemono" ELSE "Coomer"

\* author_name of download_content: author element, else the og:image
\* metadata, else the literal
AuthorName(page) ==
    IF page.author # "" THEN page.author
    ELSE IF page.og_image # <<>> THEN page.og_image[1].user
    ELSE "UnknownAuthor"

\* platform_name of download_content
PlatformName(page) ==
    IF page.og_image # <<>> THEN page.og_image[1].platform
    ELSE "UnknownPlatform"

\* post_path of download_content:
\* {bucket}/{author}-{platform}/posts/{post_id}
PostPath(link, page) ==
    <<BaseFolder(link), <<AuthorName(page), "-", PlatformName(page)>>,
      "posts", page.post_id>>

\* urljoin(base_url, href) on the parts the script uses
urljoin(base, href) ==
    IF href.netloc # <<>> THEN href
    ELSE [netloc |-> base.netloc, path |-> href.path]

\* extract_post_info(post_card, base_url): absent elements become sentinels
extract_post_info(post_card, base) ==
    [link |-> urljoin(base, post_card.href),
     title |-> post_card.header,
     attachments |-> IF post_card.attachments_div # "" 
                     THEN post_card.attachments_div ELSE NoAttachments,
     date |-> IF post_card.time # "" THEN post_card.time
              ELSE "No date available",
     image |-> IF post_card.img # "" THEN post_card.img ELSE NoImage]

\* get_total_posts(soup): <<>> is None, <<n>> is the parsed count
get_total_posts(page) ==
    IF page.small # <<>> THEN <<page.small[1]>> ELSE <<>>

\* page count with floor division, without the +49
TotalPagesFloor(total) ==
    IF total # <<>> /\ total[1] # 0
    THEN total[1] \div PageSize
    ELSE 1

\* a page count that, without a total, lets the walk run to the first
\* empty page
TotalPagesUntilEmpty(total) ==
    IF total # <<>> /\ total[1] # 0
    THEN (total[1] + (PageSize - 1)) \div PageSize
    ELSE MaxPosts + 2

\* total_pages as computed on page 0
TotalPages(total) ==
    IF total # <<>> /\ total[1] # 0
    THEN (total[1] + (PageSize - 1)) \div PageSize
    ELSE 1

\* the test `if not post_cards` left out
BreakOnEmptyNever(post_cards) == FALSE

\* `if not post_cards: break` of the pagination loop
BreakOnEmpty(post_cards) == post_cards = <<>>

\* has_media with "and" for "or"
HasMediaAnd(post) ==
    post.image # NoImage /\ post.attachments # NoAttachments

\* has_media of the filter loop
HasMedia(post) ==
    post.image # NoImage \/ post.attachments # NoAttachments

\* the filter loop's branches as independent ifs: one append per true branch
AppendsIndependent(cfg, post) ==
    (IF cfg.both THEN 1 ELSE 0)
    + (IF cfg.files_only /\ HasMedia(post) THEN 1 ELSE 0)
    + (IF cfg.no_files /\ ~HasMedia(post) THEN 1 ELSE 0)

\* number of times the if/elif/elif of the filter loop appends the post
Appends(cfg, post) ==
    IF cfg.both THEN 1
    ELSE IF cfg.files_only /\ HasMedia(post) THEN 1
    ELSE IF cfg.no_files /\ ~HasMedia(post) THEN 1
    ELSE 0

RECURSIVE FilterPosts(_, _)
\* the filter loop over all_posts
FilterPosts(cfg, posts) ==
    IF posts = <<>> THEN <<>>
    ELSE [i \in 1..Appends(cfg, Head(posts)) |-> Head(posts)]
         \o FilterPosts(cfg, Tail(posts))

-----------------------------------------------------------------------------
(* The remote site and the settings: the inputs of the script *)

CoomerSu == <<"c", "o", "o", "m", "e", "r", ".", "s", "u">>

\* the profile URL typed by the operator
base_url == [netloc |-> KemonoSu, path |-> "/patreon/user/7"]

\* the post cards the listing pages of the model hold
PostCards ==
    { [href |-> [netloc |-> <<>>, path |-> "/patreon/user/7/post/1"],
       header |-> "one", attachments_div |-> "",
       time |-> "2024-01-01", img |-> "/thumbnail/1.jpg"],
      [href |-> [netloc |-> CoomerSu, path |-> "/fansly/user/7/post/2"],
       header |-> "two", attachments_div |-> "2 attachments",
       time |-> "", img |-> ""],
      [href |-> [netloc |-> <<>>, path |-> "/patreon/user/7/post/3"],
       header |-> "three", attachments_div |-> "No attachments",
       time |-> "2024-01-03", img |-> ""] }

\* sequences of at most n post cards
CardSeqs(n) == UNION {[1..k -> PostCards] : k \in 0..n}

\* the totals a listing page may report in its <small> element
Totals == {0, 50, 73, 101}

\* the listing pages the site may answer with: small is <<>> for a page
\* without <small> element, else the number that follows " of " in its text
ListingPages ==
    [small : {<<>>} \cup {<<t>> : t \in Totals}, cards : CardSeqs(MaxPosts)]

\* media URLs: UrlA and UrlB are distinct and both resolve to a.j, UrlB
\* through its query parameter f; UrlH resolves to Untitled.html, the name of
\* the metadata document of a post without title, and UrlD to
\* Untitled_duplicate1.html
UrlA == [path |-> <<"/", "d", "/", "a", ".", "j">>, f |-> <<>>]

UrlB == [path |-> <<"/", "e", "/", "x">>, f |-> <<"a", ".", "j">>]

UrlH == [path |-> <<"/", "d", "/", "U", "n", "t", "i", "t", "l", "e", "d",
                    ".", "h", "t", "m", "l">>,
         f |-> <<>>]

UrlD == [path |-> <<"/", "d", "/", "U", "n", "t", "i", "t", "l", "e", "d">>
                  \o DuplicateMark \o <<"1", ".", "h", "t", "m", "l">>,
         f |-> <<>>]

\* the detail pages the site may answer with; post_id "" is a page without
\* the <meta name="id"> element, title <<>> a page without h1.post__title;
\* browse[i] is the href of the "browse" link that follows attachment tag i
\* before the next attachment tag ("" when there is none)
DetailPages ==
    { [author |-> "ann", og_image |-> <<>>, post_id |-> "1",
       title |-> <<"b", ":", "c">>, images |-> <<UrlA, UrlB>>,
       attachments |-> <<>>, browse |-> <<>>],
      [author |-> "", og_image |-> <<[platform |-> "fansly", user |-> "bob"]>>,
       post_id |-> "2",
       title |-> <<>>, images |-> <<UrlD>>, attachments |-> <<UrlH>>,
       browse |-> <<"/posts/archives/2">>],
      [author |-> "", og_image |-> <<>>, post_id |-> "",
       title |-> <<"t">>, images |-> <<UrlA>>, attachments |-> <<>>,
       browse |-> <<>>] }

\* soup before any detail page has been parsed
NoSoup == [author |-> "", og_image |-> <<>>, post_id |-> "",
           title |-> <<>>, images |-> <<>>, attachments |-> <<>>,
           browse |-> <<>>]

Configs ==
    [both : BOOLEAN, files_only : BOOLEAN, no_files : BOOLEAN,
     save_info_txt : BOOLEAN, download_attachments : BOOLEAN,
     download_videos : BOOLEAN]

-----------------------------------------------------------------------------
(* The session of create_session *)

\* Retry(total=5, ...): retries allowed to one fetch
RetryTotal == 5

\* Retry(..., status_forcelist=[500, 502, 503, 504], ...)
status_forcelist == {500, 502, 503, 504}

\* Retry(..., allowed_methods=["GET"])
allowed_methods == {"GET"}

\* statuses for which Retry honours a Retry-After header (its default
\* respect_retry_after_header=True, which create_session does not change)
RETRY_AFTER_STATUS_CODES == {413, 429, 503}

\* an is_retry that takes every error status for retryable
is_retry_any_error(total, method, status_code, has_retry_after) ==
    /\ method \in allowed_methods
    /\ status_code >= 400

\* Retry.is_retry for the Retry object of create_session with total retries
\* left: is a response with this status to be retried
is_retry(total, method, status_code, has_retry_after) ==
    /\ method \in allowed_methods
    /\ \/ status_code \in status_forcelist
       \/ /\ total > 0
          /\ has_retry_after
          /\ status_code \in RETRY_AFTER_STATUS_CODES

\* before the first request of a fetch
NoResponse == [kind |-> "none", status |-> 0, retry_after |-> FALSE,
               body_ok |-> FALSE]

\* what one request of session.get can end in: the connection fails, the
\* response head does not arrive, or a response arrives, with or without a
\* Retry-After header, whose body can or cannot be read and decoded
Responses ==
    [kind : {"response"}, status : {200, 404, 429, 500, 502, 503, 504},
     retry_after : BOOLEAN, body_ok : BOOLEAN]
    \cup [kind : {"connect_error", "read_error"}, status : {0},
          retry_after : {FALSE}, body_ok : {FALSE}]

-----------------------------------------------------------------------------
(* The script *)

Init ==
    /\ config \in Configs
    /\ pc = "walk"
    /\ page_number = 0
    /\ total_pages = 0
    /\ all_posts = <<>>
    /\ filtered_posts = <<>>
    /\ posts_info = <<>>
    /\ index_writes = 0
    /\ total_posts = <<>>
    /\ fetched = <<>>
    /\ seen_pages = <<>>
    /\ page_failed = FALSE
    /\ post_idx = 0
    /\ soup = NoSoup
    /\ post_path = <<>>
    /\ tag_idx = 0
    /\ downloaded_links = {}
    /\ requested = <<>>
    /\ info_browse = <<>>
    /\ media_ok = 0
    /\ folders = {}
    /\ files = {}
    /\ outcomes = <<>>
    /\ served = 0
    /\ interrupted = {}
    /\ run = 1
    /\ attempts = 0
    /\ response = NoResponse
    /\ fetch_result = "pending"
    /\ raw_name = <<>>
    /\ sanitized = <<>>

walkVars == <<page_number, total_pages, all_posts, total_posts, fetched,
              seen_pages, page_failed>>

filterVars == <<filtered_posts, posts_info, index_writes>>

callVars == <<soup, post_path, tag_idx, downloaded_links, requested,
              info_browse, media_ok>>

diskVars == <<folders, files>>

\* the single fetch and the single sanitize_filename call studied on their own
unitVars == <<attempts, response, fetch_result, raw_name, sanitized>>

envVars == <<served, interrupted, run, unitVars>>

\* the state of the script
scriptVars == <<config, pc, page_number, total_pages, all_posts,
                filtered_posts, posts_info, index_writes, total_posts, fetched,
                seen_pages, page_failed, post_idx, soup, post_path, tag_idx,
                downloaded_links, requested, info_browse, media_ok, folders,
                files,
                outcomes, served, interrupted, run>>

MediaLoops == {"images", "attachments", "videos"}

\* offset of the listing URL f"{base_url}?o={page_number * 50}"
Offset(n) == n * PageSize

\* the except clause of the pagination loop that drops the collected posts
FetchListingFailClears ==
    /\ pc = "walk"
    /\ fetched' = Append(fetched, Offset(page_number))
    /\ page_failed' = TRUE
    /\ all_posts' = <<>>
    /\ pc' = "filter"
    /\ UNCHANGED <<config, page_number, total_pages, total_posts, seen_pages,
                   filterVars, post_idx, callVars, diskVars, outcomes, envVars>>

\* the pagination loop body when the request fails: print and break
FetchListingFail ==
    /\ pc = "walk"
    /\ fetched' = Append(fetched, Offset(page_number))
    /\ page_failed' = TRUE
    /\ pc' = "filter"
    /\ UNCHANGED <<config, page_number, total_pages, all_posts, total_posts,
                   seen_pages, filterVars, post_idx, callVars, diskVars,
                   outcomes, envVars>>

\* the pagination loop body when the request succeeds with the given page
FetchListing(page) ==
    /\ pc = "walk"
    /\ served + Len(page.cards) <= MaxPosts
    /\ served' = served + Len(page.cards)
    /\ fetched' = Append(fetched, Offset(page_number))
    /\ seen_pages' = Append(seen_pages, page.cards)
    /\ total_posts' = IF page_number = 0 THEN get_total_posts(page)
                      ELSE total_posts
    /\ total_pages' = IF page_number = 0 THEN TotalPages(total_posts')
                      ELSE total_pages
    /\ IF BreakOnEmpty(page.cards)
       THEN /\ pc' = "filter"
            /\ UNCHANGED <<all_posts, page_number>>
       ELSE /\ all_posts' = all_posts \o
                   [i \in 1..Len(page.cards) |->
                       extract_post_info(page.cards[i], base_url)]
            /\ IF page_number >= total_pages' - 1
               THEN pc' = "filter" /\ UNCHANGED page_number
               ELSE pc' = "walk" /\ page_number' = page_number + 1
    /\ UNCHANGED <<config, page_failed, filterVars, post_idx, callVars,
                   diskVars, outcomes, interrupted, run, unitVars>>

\* a save_posts_to_file that writes the last post first
save_posts_to_file_reversed(posts) ==
    [i \in 1..Len(posts) |->
        LET post == posts[Len(posts) + 1 - i]
        IN [Link |-> post.link, Title |-> post.title,
            NumberOfAttachments |-> post.attachments,
            PostDate |-> post.date, CoverImage |-> post.image]]

\* save_posts_to_file(posts): the content of posts_info.txt after the call,
\* one record of five labelled lines per post, in the order of the loop
save_posts_to_file(posts) ==
    [i \in 1..Len(posts) |->
        [Link |-> posts[i].link, Title |-> posts[i].title,
         NumberOfAttachments |-> posts[i].attachments,
         PostDate |-> posts[i].date, CoverImage |-> posts[i].image]]

\* the filter loop, save_posts_to_file and the entry of the download loop
FilterAndSave ==
    /\ pc = "filter"
    /\ filtered_posts' = FilterPosts(config, all_posts)
    /\ posts_info' = save_posts_to_file(filtered_posts')
    /\ index_writes' = index_writes + 1
    /\ IF filtered_posts' = <<>>
       THEN pc' = "done" /\ post_idx' = 0
       ELSE pc' = "detail" /\ post_idx' = 1
    /\ UNCHANGED <<config, walkVars, callVars, diskVars, outcomes, envVars>>

\* the listing URL f"{base_url}?o={offset}"
ListingUrl(offset) ==
    [netloc |-> base_url.netloc, path |-> base_url.path, query |-> <<offset>>]

\* the module-level name url, which the pagination loop binds before every
\* listing request and nothing binds afterwards; save_post_info has no local
\* of this name
url == ListingUrl(fetched[Len(fetched)])

\* attachment_tag.find_next("a", href=True, string="browse »") for attachment
\* tag i: the first browse link after the tag in the document (<<>>: None)
find_next_browse(page, i) ==
    LET later == {j \in i..Len(page.browse) : page.browse[j] # ""}
        first == CHOOSE j \in later : \A k \in later : j <= k
    IN IF later = {} THEN <<>> ELSE <<page.browse[first]>>

\* urlparse(u)._replace(path=href).geturl(): host and query of u, path href
browse_url(u, href) ==
    [netloc |-> u.netloc, path |-> href, query |-> u.query]

RECURSIVE BrowseFrom(_, _, _)
\* the browse URLs the attachment loop of save_post_info writes from tag i on
BrowseFrom(page, u, i) ==
    IF i > Len(page.attachments) THEN <<>>
    ELSE LET browse_tag == find_next_browse(page, i)
         IN (IF browse_tag # <<>> THEN <<browse_url(u, browse_tag[1])>>
             ELSE <<>>)
            \o BrowseFrom(page, u, i + 1)

\* the file name save_post_info writes: f"{title}.html"
InfoName(page) ==
    (IF page.title # <<>> THEN sanitize_filename(page.title)
     ELSE <<"U", "n", "t", "i", "t", "l", "e", "d">>)
    \o <<".", "h", "t", "m", "l">>

\* what the src field of a file holds when the file is the metadata
\* document, which no URL was fetched for
InfoSrc == [path |-> <<>>, f |-> <<>>]

\* open(path, "w") and write: the file is created or replaced
WriteFile(fs, path, name, src) ==
    {f \in fs : ~(f.dir = path /\ f.name = name)}
    \cup {[dir |-> path, name |-> name, src |-> src]}

\* the tags a media loop of download_content runs over
TagsOf(cls, page) ==
    IF cls = "images" THEN page.images ELSE page.attachments

\* the position download_content reaches when it is about to handle tag i of
\* loop cls: the next tag to request, or the return after the last loop
NextPos(cls, i, page, cfg) ==
    LET ret == [pc |-> "return", idx |-> 0]
        fromVideos(k) ==
            IF cfg.download_videos /\ k <= Len(page.attachments)
            THEN [pc |-> "videos", idx |-> k] ELSE ret
        fromAttachments(k) ==
            IF cfg.download_attachments /\ k <= Len(page.attachments)
            THEN [pc |-> "attachments", idx |-> k] ELSE fromVideos(1)
        fromImages(k) ==
            IF k <= Len(page.images)
            THEN [pc |-> "images", idx |-> k] ELSE fromAttachments(1)
    IN CASE cls = "images" -> fromImages(i)
         [] cls = "attachments" -> fromAttachments(i)
         [] cls = "videos" -> fromVideos(i)

\* an except clause around the whole loop: a failure leaves the loop
NextAfterFailureLeavesLoop(cls, i, page, cfg) ==
    NextPos(cls, Len(TagsOf(cls, page)) + 1, page, cfg)

\* where a media loop goes after its except clause has printed the failure
\* of tag i: the next iteration
NextAfterFailure(cls, i, page, cfg) == NextPos(cls, i + 1, page, cfg)

\* download_content returns (or its except clause has printed) and the
\* download loop goes to the next filtered post, or to the final print
Return(outcome) ==
    /\ outcomes' = Append(outcomes, outcome)
    /\ IF post_idx < Len(filtered_posts)
       THEN pc' = "detail" /\ post_idx' = post_idx + 1
       ELSE pc' = "done" /\ UNCHANGED post_idx

\* a download_content that creates the site folder before it requests the
\* detail page
FetchDetailFailAfterMakedirs ==
    /\ pc = "detail"
    /\ requested' = <<>>
    /\ folders' = folders \cup {<<BaseFolder(filtered_posts[post_idx].link)>>}
    /\ Return("Failed")
    /\ UNCHANGED <<config, walkVars, filterVars, soup, post_path, tag_idx,
                   downloaded_links, info_browse, media_ok, files, envVars>>

\* download_content, request of the detail page fails: the
\* RequestException is caught at the end of the function
FetchDetailFail ==
    /\ pc = "detail"
    /\ requested' = <<>>
    /\ Return("Failed")
    /\ UNCHANGED <<config, walkVars, filterVars, soup, post_path, tag_idx,
                   downloaded_links, info_browse, media_ok, diskVars, envVars>>

\* download_content, detail page without <meta name="id">: the subscript of
\* None raises TypeError, which no except clause of the script catches
FetchDetailNoId(page) ==
    /\ pc = "detail"
    /\ page.post_id = ""
    /\ pc' = "crashed"
    /\ UNCHANGED <<config, walkVars, filterVars, post_idx, callVars, diskVars,
                   outcomes, envVars>>

\* download_content, the destination folder exists: return at once
FetchDetailSkip(page) ==
    /\ pc = "detail"
    /\ page.post_id # ""
    /\ LET path == PostPath(filtered_posts[post_idx].link, page)
       IN /\ FolderExists(path)
          /\ post_path' = path
    /\ soup' = page
    /\ requested' = <<>>
    /\ Return("Skipped")
    /\ UNCHANGED <<config, walkVars, filterVars, tag_idx, downloaded_links,
                   info_browse, media_ok, diskVars, envVars>>

\* download_content, os.makedirs raises OSError, which no except clause of
\* the script catches
MakedirsFail(page) ==
    /\ pc = "detail"
    /\ page.post_id # ""
    /\ ~FolderExists(PostPath(filtered_posts[post_idx].link, page))
    /\ pc' = "crashed"
    /\ UNCHANGED <<config, walkVars, filterVars, post_idx, callVars, diskVars,
                   outcomes, envVars>>

\* download_content, new post: create the folder, write the metadata
\* document when asked to, and enter the media loops
FetchDetailNew(page) ==
    /\ pc = "detail"
    /\ page.post_id # ""
    /\ LET path == PostPath(filtered_posts[post_idx].link, page)
           pos == NextPos("images", 1, page, config)
       IN /\ ~FolderExists(path)
          /\ post_path' = path
          /\ folders' = folders \cup {path}
          /\ files' = IF config.save_info_txt
                      THEN WriteFile(files, path, InfoName(page), InfoSrc)
                      ELSE files
          /\ info_browse' = IF config.save_info_txt
                            THEN BrowseFrom(page, url, 1)
                            ELSE <<>>
          /\ IF pos.pc = "return"
             THEN Return("Downloaded") /\ tag_idx' = 0
             ELSE /\ pc' = pos.pc
                  /\ tag_idx' = pos.idx
                  /\ UNCHANGED <<post_idx, outcomes>>
    /\ soup' = page
    /\ requested' = <<>>
    /\ downloaded_links' = {}
    /\ media_ok' = 0
    /\ UNCHANGED <<config, walkVars, filterVars, envVars>>

\* a test before the request that also passes over the URLs the call has
\* already downloaded
ShouldRequestOnce(path, name, link) ==
    ~PathExists(path, name) /\ link \notin downloaded_links

\* the test before the request of a media loop: if not
\* os.path.exists(file_path); downloaded_links is not consulted
ShouldRequest(path, name, link) == ~PathExists(path, name)

\* one iteration of a media loop of download_content: the request of the
\* file succeeds (ok) or raises a RequestException, which the loop catches
FetchMedia(ok) ==
    /\ pc \in MediaLoops
    /\ LET link == TagsOf(pc, soup)[tag_idx]
           filename == ensure_unique_filename(post_path,
                                              get_filename_from_url(link))
           asked == ShouldRequest(post_path, filename, link)
           pos == IF asked /\ ~ok
                  THEN NextAfterFailure(pc, tag_idx, soup, config)
                  ELSE NextPos(pc, tag_idx + 1, soup, config)
       IN /\ IF asked
             THEN /\ requested' = Append(requested, link)
                  /\ IF ok
                     THEN /\ files' = WriteFile(files, post_path, filename, link)
                          /\ downloaded_links' = downloaded_links \cup {link}
                          /\ media_ok' = media_ok + 1
                     ELSE UNCHANGED <<files, downloaded_links, media_ok>>
             ELSE UNCHANGED <<requested, files, downloaded_links, media_ok>>
          /\ IF pos.pc = "return"
             THEN Return("Downloaded") /\ tag_idx' = 0
             ELSE /\ pc' = pos.pc
                  /\ tag_idx' = pos.idx
                  /\ UNCHANGED <<post_idx, outcomes>>
    /\ UNCHANGED <<config, walkVars, filterVars, soup, post_path, folders,
                   info_browse, envVars>>

\* the script is started again over the same disk, after it ended or was
\* killed where it stood in the download loop (a run killed earlier has not
\* touched the folders)
Restart ==
    /\ run < MaxRuns
    /\ pc \notin {"walk", "filter"}
    /\ run' = run + 1
    /\ interrupted' = IF pc \in MediaLoops THEN interrupted \cup {post_path}
                      ELSE interrupted
    /\ pc' = "walk"
    /\ page_number' = 0
    /\ total_pages' = 0
    /\ all_posts' = <<>>
    /\ filtered_posts' = <<>>
    /\ total_posts' = <<>>
    /\ fetched' = <<>>
    /\ seen_pages' = <<>>
    /\ page_failed' = FALSE
    /\ post_idx' = 0
    /\ soup' = NoSoup
    /\ post_path' = <<>>
    /\ tag_idx' = 0
    /\ downloaded_links' = {}
    /\ requested' = <<>>
    /\ info_browse' = <<>>
    /\ media_ok' = 0
    /\ outcomes' = <<>>
    /\ UNCHANGED <<config, posts_info, index_writes, diskVars, served,
                   unitVars>>

Next ==
    \/ FetchListingFail
    \/ \E page \in ListingPages : FetchListing(page)
    \/ FilterAndSave
    \/ FetchDetailFail
    \/ \E page \in DetailPages : FetchDetailNoId(page)
    \/ \E page \in DetailPages : FetchDetailSkip(page)
    \/ \E page \in DetailPages : MakedirsFail(page)
    \/ \E page \in DetailPages : FetchDetailNew(page)
    \/ \E ok \in BOOLEAN : FetchMedia(ok)

\* settings with every filter mode, the metadata document on and the
\* attachment and video passes off
InitFilter ==
    /\ Init
    /\ config.save_info_txt
    /\ ~config.download_attachments /\ ~config.download_videos

Spec == InitFilter /\ [][Next]_vars

\* settings with every combination of the attachment and video passes, all
\* posts kept and the metadata document on
InitDownload ==
    /\ Init
    /\ config.both /\ ~config.files_only /\ ~config.no_files
    /\ config.save_info_txt

SpecDownload == InitDownload /\ [][Next]_vars

\* the settings of the runs that are repeated over the same disk: all posts
\* kept, images only, with and without the metadata document
InitRerun ==
    /\ Init
    /\ config.both /\ ~config.files_only /\ ~config.no_files
    /\ ~config.download_attachments /\ ~config.download_videos

NextRerun == Next \/ Restart

SpecRerun == InitRerun /\ [][NextRerun]_vars

\* one request of response = session.get(url, ...) followed by
\* response.raise_for_status(): the adapter retries under the Retry object
\* of create_session, whose total is decremented by every retried failure and
\* which gives up once it is below zero
Attempt(resp) ==
    /\ fetch_result = "pending"
    /\ attempts' = attempts + 1
    /\ response' = resp
    /\ LET total == RetryTotal - attempts
           retried == \/ resp.kind \in {"connect_error", "read_error"}
                      \/ is_retry(total, "GET", resp.status, resp.retry_after)
       IN fetch_result' =
             IF retried
             THEN (IF total - 1 < 0 THEN "error" ELSE "pending")
             ELSE IF ~resp.body_ok \/ resp.status >= 400 THEN "error"
             ELSE "ok"
    /\ UNCHANGED <<scriptVars, raw_name, sanitized>>

\* characters of the names given to sanitize_filename: the nine it
\* replaces and three it keeps
NameChars == ForbiddenChars \cup {"a", ".", "_"}

\* the names given to sanitize_filename: every name of at most MaxShort
\* characters, and names of MaxNameLen - 1 to MaxNameLen + MaxOver characters
\* that begin and end with any character and hold the letter a between
Filenames ==
    UNION {[1..n -> NameChars] : n \in 0..MaxShort}
    \cup {<<first>> \o [i \in 1..n |-> "a"] \o <<last>> :
             first \in NameChars, last \in NameChars,
             n \in (MaxNameLen - 3)..(MaxNameLen + MaxOver - 2)}

\* the call sanitize_filename(name), as made on the title of a post and on
\* the file name of every media URL
Sanitize(name) ==
    /\ sanitized = <<>>
    /\ raw_name' = name
    /\ sanitized' = <<sanitize_filename(name)>>
    /\ UNCHANGED <<scriptVars, attempts, response, fetch_result>>

\* one setting, for the studies that do not depend on the settings
InitUnit ==
    /\ Init
    /\ config.both /\ ~config.files_only /\ ~config.no_files
    /\ config.save_info_txt
    /\ ~config.download_attachments /\ ~config.download_videos

\* one fetch through the session, with every course of responses
NextFetch == \E resp \in Responses : Attempt(resp)

SpecFetch == InitUnit /\ [][NextFetch]_vars

\* calls of sanitize_filename, with every name of Filenames
NextSanitize == \E name \in Filenames : Sanitize(name)

SpecSanitize == InitUnit /\ [][NextSanitize]_vars

-----------------------------------------------------------------------------
(* Properties *)

Last(s) == s[Len(s)]

\* the download_content call of the step has parsed a detail page that
\* carries a post id (it neither failed on the request nor ended the process)
ParsedDetailStep ==
    /\ pc = "detail"
    /\ pc' \notin {"crashed", "walk"}
    /\ outcomes' # Append(outcomes, "Failed")

C1_Step ==
    (ParsedDetailStep
     /\ PostPath(filtered_posts[post_idx].link, soup') \in folders)
    => /\ outcomes' = Append(outcomes, "Skipped")
       /\ pc' \in {"detail", "done"}
       /\ requested' = <<>>
       /\ files' = files
       /\ folders' = folders

\* C1: a download_content call that finds the destination folder of its post
\* on disk returns as Skipped after the detail page alone: no media request,
\* and folders and files are exactly what they were before the call.
C1_SkipLeavesDiskUnchanged == [][C1_Step]_vars

\* a second run has skipped a post whose folder the first run filled
C1_Witness ==
    /\ run = 2
    /\ pc \in {"detail", "done"}
    /\ outcomes # <<>> /\ Last(outcomes) = "Skipped"
    /\ post_path \in folders
    /\ \E f \in files : f.dir = post_path /\ f.src = InfoSrc
    /\ \E f \in files : f.dir = post_path /\ f.src # InfoSrc

\* C2 as claimed: no post-level failure of the download loop ends the
\* process; the run always goes on to the next post or the final print.
C2_DownloadNeverFatal == pc # "crashed"

\* the running download_content call is in the media loops of folder d
Filling(d) == pc \in MediaLoops /\ post_path = d

FilesIn(d) == {f \in files : f.dir = d}

C3_Step ==
    \A d \in folders :
       ~Filling(d) =>
           /\ ~(pc' \in MediaLoops /\ post_path' = d)
           /\ d \in folders'
           /\ {f \in files' : f.dir = d} = FilesIn(d)

\* C3: a folder that exists and is not being filled by the running call (its
\* call returned, or the process was killed in it) is never filled again and
\* keeps exactly its files, through every later call and every later run.
C3_LeftFolderFrozen == [][C3_Step]_vars

\* a later run has skipped a post whose call was killed, and an image of the
\* post is still missing from its folder
C3_Witness ==
    /\ run >= 2
    /\ outcomes # <<>> /\ Last(outcomes) = "Skipped"
    /\ pc \in {"detail", "done"}
    /\ post_path \in interrupted
    /\ \E i \in 1..Len(soup.images) :
          \A f \in FilesIn(post_path) : f.src # soup.images[i]

C4_Step ==
    /\ (pc = "walk" /\ Len(seen_pages') = Len(seen_pages) + 1
        /\ Last(seen_pages') = <<>>)
       => (pc' = "filter" /\ all_posts' = all_posts /\ ~page_failed'
           /\ page_number' = page_number)
    /\ pc # "walk" => (pc' # "walk" /\ fetched' = fetched)

\* C4: a parsed listing page without post cards ends the walk in that step,
\* without the failure message and with all_posts as it was; once the walk
\* has ended no listing request is made.
C4_EmptyPageStopsWalk == [][C4_Step]_vars

\* the second page of a profile with more than two computed pages was empty
C4_Witness ==
    /\ pc = "filter"
    /\ Len(seen_pages) = 2 /\ Last(seen_pages) = <<>>
    /\ all_posts # <<>>
    /\ page_number < total_pages - 1
    /\ ~page_failed

CeilDiv(y, n) == CHOOSE k \in 0..y : k * n >= y /\ (k - 1) * n < y

\* C5: the k-th listing request has offset k*50; when page 0 reports a
\* total Y > 0 and the walk ends with neither an empty page nor a failed
\* request, total_pages is ceil(Y/50) and exactly that many requests were made.
C5_TotalInference ==
    /\ \A k \in 1..Len(fetched) : fetched[k] = (k - 1) * 50
    /\ (pc # "walk" /\ total_posts # <<>> /\ ~page_failed
        /\ seen_pages # <<>>)
       => ((total_posts[1] > 0 /\ Last(seen_pages) # <<>>)
           => /\ total_pages = CeilDiv(total_posts[1], 50)
              /\ Len(fetched) = CeilDiv(total_posts[1], 50))

\* a total of 73 gave two requests, at offsets 0 and 50
C5_Witness ==
    /\ pc # "walk"
    /\ total_posts = <<73>>
    /\ fetched = <<0, 50>>
    /\ ~page_failed
    /\ Len(seen_pages) = 2 /\ Last(seen_pages) # <<>>

RECURSIVE Collected(_)
\* the posts of the given pages, in page order and in-page order
Collected(pages) ==
    IF pages = <<>> THEN <<>>
    ELSE [i \in 1..Len(Head(pages)) |->
             extract_post_info(Head(pages)[i], base_url)]
         \o Collected(Tail(pages))

\* C6: after the request of listing page k has failed, the walk is over,
\* all_posts holds exactly the posts of pages 0..k-1 in order, and the run
\* goes on: the filter step is enabled, then the index holds the filtered
\* posts and the download loop stands at one of them.
C6_PartialProgressKept ==
    page_failed =>
        /\ pc # "walk"
        /\ Len(seen_pages) = page_number
        /\ Len(fetched) = page_number + 1
        /\ all_posts = Collected(seen_pages)
        /\ pc = "filter" => ENABLED FilterAndSave
        /\ pc # "filter" =>
              /\ index_writes >= 1
              /\ posts_info = save_posts_to_file(filtered_posts)
              /\ \A i \in 1..Len(filtered_posts) :
                    \E j \in 1..Len(all_posts) : filtered_posts[i] = all_posts[j]
              /\ filtered_posts # <<>> => post_idx \in 1..Len(filtered_posts)

\* page 1 failed after page 0 gave posts, and a post has been downloaded
C6_Witness ==
    /\ page_failed
    /\ page_number = 1
    /\ all_posts # <<>>
    /\ outcomes # <<>> /\ Last(outcomes) = "Downloaded"

FilterFlags == {"both", "files_only", "no_files"}

FlagsSet(cfg) == Cardinality({k \in FilterFlags : cfg[k]})

FilterDone == pc \notin {"walk", "filter"}

C7_HasMedia(post) ==
    post.image # "No image available" \/ post.attachments # "No attachments"

C7_Include(post) ==
    \/ config.both
    \/ config.files_only /\ C7_HasMedia(post)
    \/ config.no_files /\ ~C7_HasMedia(post)

\* C7: with exactly one of both, files_only, no_files set, the filtered
\* sequence is all_posts restricted, in order, to the posts that the mode
\* includes: all for both, those with a cover image or an attachment label
\* other than "No attachments" for files_only, the others for no_files.
C7_FilterRule ==
    (FilterDone /\ FlagsSet(config) = 1)
    => filtered_posts = SelectSeq(all_posts, C7_Include)

\* files_only kept one of two collected posts
C7_Witness ==
    /\ FilterDone
    /\ config.files_only /\ FlagsSet(config) = 1
    /\ Len(all_posts) = 2
    /\ Len(filtered_posts) = 1

Count(x, s) == Cardinality({i \in 1..Len(s) : s[i] = x})

\* C8 as claimed: with more than one filter flag set, some collected post is
\* appended to the filtered sequence more often than it was collected.
C8_OverlapDuplicates ==
    (FilterDone /\ FlagsSet(config) > 1 /\ all_posts # <<>>)
    => \E i \in 1..Len(all_posts) :
          Count(all_posts[i], filtered_posts) > Count(all_posts[i], all_posts)

C8_FirstMatch(post) ==
    IF config.both THEN TRUE
    ELSE IF config.files_only /\ C7_HasMedia(post) THEN TRUE
    ELSE config.no_files /\ ~C7_HasMedia(post)

\* C8 amended: with more than one filter flag set, every collected post is
\* appended at most once, when the first true flag in the order both,
\* files_only, no_files matches it; the filtered sequence is all_posts
\* restricted to those posts, in order, without duplicates.
C8_OverlapAppendsOnce ==
    (FilterDone /\ FlagsSet(config) > 1)
    => /\ filtered_posts = SelectSeq(all_posts, C8_FirstMatch)
       /\ \A i \in 1..Len(all_posts) :
             Count(all_posts[i], filtered_posts)
                 <= Count(all_posts[i], all_posts)

\* all three flags set, two posts collected, each filtered once
C8_Witness ==
    /\ FilterDone
    /\ config.both /\ config.files_only /\ config.no_files
    /\ Len(all_posts) = 2
    /\ filtered_posts = all_posts

\* the requests download_content makes for a page when no file is skipped
AllTags(page, cfg) ==
    page.images
    \o (IF cfg.download_attachments THEN page.attachments ELSE <<>>)
    \o (IF cfg.download_videos THEN page.attachments ELSE <<>>)

IsPrefix(s, t) == Len(s) <= Len(t) /\ SubSeq(t, 1, Len(s)) = s

C9_Step ==
    pc \in MediaLoops =>
       \/ /\ pc' \in MediaLoops
          /\ soup' = soup /\ post_idx' = post_idx /\ outcomes' = outcomes
          /\ IsPrefix(requested', AllTags(soup, config))
          /\ Len(requested') = Len(requested) + 1
       \/ /\ pc' \in {"detail", "done"}
          /\ outcomes' = Append(outcomes, "Downloaded")
          /\ requested' = AllTags(soup, config)

\* C9: a step of a media loop, whether its request fails or not, either
\* stays in the loops of the same call or returns the call as Downloaded
\* with every image and every attachment of each enabled pass requested, in
\* order; it never ends the call early or the process.
C9_FileFailureIsolated == [][C9_Step]_vars

\* a call has returned as Downloaded after all three of its requests failed
C9_Witness ==
    /\ pc \in {"detail", "done"}
    /\ outcomes # <<>> /\ Last(outcomes) = "Downloaded"
    /\ Len(requested) = 3
    /\ downloaded_links = {}

\* the name the claim gives the file of a URL that resolves to name: name
\* itself when free in the folder, else base_duplicateN.ext for the least
\* N >= 1 that is free
C10_Expected(dir, name) ==
    LET parts == splitext(name)
        dup(n) == parts.base \o DuplicateMark \o Digits(n) \o parts.ext
        taken(x) == \E f \in files : f.dir = dir /\ f.name = x
        N == CHOOSE n \in 1..(Cardinality(files) + 1) :
                 ~taken(dup(n)) /\ \A m \in 1..(n - 1) : taken(dup(m))
    IN IF taken(name) THEN dup(N) ELSE name

C10_Step ==
    (pc \in MediaLoops /\ files' # files) =>
       (LET link == TagsOf(pc, soup)[tag_idx]
            name == C10_Expected(post_path, get_filename_from_url(link))
        IN /\ \A f \in files : ~(f.dir = post_path /\ f.name = name)
           /\ files' = files \cup
                 {[dir |-> post_path, name |-> name, src |-> link]})

\* C10: every file a media loop writes is a new file: the files on disk
\* stay, and the new one is named by the URL's sanitized name when that is
\* free in the folder, else name_duplicateN.ext with the least free N >= 1.
C10_Deduplication == [][C10_Step]_vars

\* two URLs that both resolve to a.j are on disk as a.j and a_duplicate1.j
C10_Witness ==
    \E d \in folders :
        /\ [dir |-> d, name |-> <<"a", ".", "j">>, src |-> UrlA] \in files
        /\ [dir |-> d,
            name |-> <<"a">> \o DuplicateMark \o <<"1", ".", "j">>,
            src |-> UrlB] \in files

\* C11: a download_content call whose detail-page request fails creates no
\* folder, writes no file (no metadata document either) and requests no media
\* file; the download loop goes on with the next post.
C11_Step ==
    (pc = "detail" /\ outcomes' = Append(outcomes, "Failed"))
    => /\ folders' = folders
       /\ files' = files
       /\ requested' = <<>>
       /\ pc' \in {"detail", "done"}

C11_FailedDetailLeavesDiskUnchanged == [][C11_Step]_vars

\* a post was downloaded and the detail page of the next one failed: the
\* disk holds the folder of the first post only
C11_Witness ==
    /\ outcomes = <<"Downloaded", "Failed">>
    /\ Cardinality(folders) = 1
    /\ files # {}

\* files_only is the only filter flag set
C12_FilesOnly == config.files_only /\ ~config.both /\ ~config.no_files

\* C12: once the index has been written it holds exactly one record per
\* post that the filter keeps, with the five fields of that post, in the
\* order in which the walk met the posts (page order, then in-page order);
\* with files_only alone every record has a cover image or an attachment
\* label other than "No attachments".
C12_IndexInWalkOrder ==
    FilterDone =>
        LET kept == SelectSeq(Collected(seen_pages), C7_Include)
        IN /\ Len(posts_info) = Len(kept)
           /\ \A i \in 1..Len(kept) :
                 /\ posts_info[i].Link = kept[i].link
                 /\ posts_info[i].Title = kept[i].title
                 /\ posts_info[i].NumberOfAttachments = kept[i].attachments
                 /\ posts_info[i].PostDate = kept[i].date
                 /\ posts_info[i].CoverImage = kept[i].image
           /\ C12_FilesOnly =>
                 \A i \in 1..Len(posts_info) :
                    \/ posts_info[i].CoverImage # "No image available"
                    \/ posts_info[i].NumberOfAttachments # "No attachments"

\* files_only over a profile of three listing pages: the index holds the
\* post of page 0 before the post of page 1
C12_Witness ==
    /\ FilterDone
    /\ C12_FilesOnly
    /\ Len(seen_pages) = 3
    /\ Len(seen_pages[1]) = 1 /\ Len(seen_pages[2]) = 1
    /\ Len(posts_info) = 2
    /\ posts_info[1].Link # posts_info[2].Link

\* what C13 states: a request is repeated only after a response whose status
\* is 500, 502, 503 or 504
C13_RetryOnlyOnStatus_Step ==
    (attempts' = attempts + 1 /\ fetch_result' = "pending")
    => /\ response'.kind = "response"
       /\ response'.status \in {500, 502, 503, 504}

C13_RetryOnlyOnStatus == [][C13_RetryOnlyOnStatus_Step]_vars

\* the last request ended in a failure that the session repeats
C13_Retryable(r) ==
    \/ r.kind \in {"connect_error", "read_error"}
    \/ r.kind = "response" /\ r.status \in {500, 502, 503, 504}
    \/ r.kind = "response" /\ r.status \in {413, 429, 503} /\ r.retry_after

C13_Step ==
    (attempts' = attempts + 1)
    => /\ attempts' <= 1 + 5
       /\ fetch_result' = "pending"
             <=> (attempts' <= 5 /\ C13_Retryable(response'))
       /\ fetch_result' = "ok"
             <=> /\ response'.kind = "response"
                 /\ response'.status < 400
                 /\ response'.body_ok

\* C13 (amended): a fetch sends at most 1 + 5 requests; a request is repeated,
\* while retries are left, exactly when it ended in a response with status
\* 500, 502, 503 or 504, in a connection or read error of the request, or in
\* a 413, 429 or 503 response that carries Retry-After; every other error
\* status (404) and an unreadable body end the fetch as an error at once.
C13_BoundedRetry == [][C13_Step]_vars

\* six requests in a row met a connection error and the fetch gave up
C13_Witness ==
    /\ attempts = 6
    /\ fetch_result = "error"
    /\ response.kind = "connect_error"

\* C14: the result of sanitize_filename has the length of the input or 255,
\* whichever is smaller; at each of its positions it holds "_" where the
\* input holds one of < > : " / \ | ? * and the character of the input
\* elsewhere; so it holds none of the nine characters and at most 255
\* characters.
C14_Sanitization ==
    sanitized # <<>> =>
        LET result == sanitized[1]
            forbidden == {"<", ">", ":", "\"", "/", "\\", "|", "?", "*"}
            n == IF Len(raw_name) <= 255 THEN Len(raw_name) ELSE 255
        IN /\ Len(result) = n
           /\ \A i \in 1..n :
                 result[i] = IF raw_name[i] \in forbidden THEN "_"
                             ELSE raw_name[i]
           /\ \A i \in 1..Len(result) : result[i] \notin forbidden
           /\ Len(result) <= 255

\* a name longer than 255 characters that begins with a backslash and ends
\* with a character that is cut off
C14_Witness ==
    /\ sanitized # <<>>
    /\ Len(raw_name) > 255
    /\ raw_name[1] = "\\"
    /\ raw_name[Len(raw_name)] = "*"
    /\ Len(sanitized[1]) = 255
    /\ sanitized[1][1] = "_"

\* the largest number of listing requests of a run whose page 0 gave the
\* total (<<>>: none, or page 0 was not parsed)
C15_Bound(total) ==
    IF total = <<>> \/ CeilDiv(total[1], 50) < 1 THEN 1
    ELSE CeilDiv(total[1], 50)

C15_Step ==
    /\ pc = "walk" => Len(fetched') = Len(fetched) + 1
    /\ pc # "walk" => fetched' = fetched
    /\ Len(fetched') <= C15_Bound(total_posts')
    /\ (pc' # "walk" /\ total_posts' = <<>>) => Len(fetched') = 1

\* C15: every step of the pagination loop makes one listing request and no
\* other step makes one; the number of listing requests never exceeds
\* max(1, ceil(total / 50)) for the total read from page 0, so the loop ends
\* within that many steps; without a total the walk ends after exactly one
\* request, whatever page 0 holds.
C15_WalkBounded == [][C15_Step]_vars

\* page 0 carried no total and as many post cards as the site serves: the
\* walk ended after this one request
C15_Witness ==
    /\ pc # "walk"
    /\ ~page_failed
    /\ total_posts = <<>>
    /\ Len(seen_pages) = 1 /\ Len(seen_pages[1]) = MaxPosts
    /\ fetched = <<0>>

\* C16: every tag a media loop reaches is requested: the images in every
\* setting, the attachment links in the attachment pass only when
\* download_attachments is set and in the video pass only when
\* download_videos is set, so that a returned call has requested each URL
\* once per image tag and once per attachment tag and enabled pass.  A URL
\* of the video pass that is already in downloaded_links is requested all
\* the same, and when this request succeeds the file of the first pass
\* stays and a second file of the same URL is added under the name
\* base_duplicateN.ext.
C16_Step ==
    pc \in MediaLoops =>
       (LET link == TagsOf(pc, soup)[tag_idx]
            parts == splitext(get_filename_from_url(link))
            passes(u) ==
               Count(u, soup.images)
               + (IF config.download_attachments
                  THEN Count(u, soup.attachments) ELSE 0)
               + (IF config.download_videos
                  THEN Count(u, soup.attachments) ELSE 0)
        IN /\ requested' = Append(requested, link)
           /\ pc = "attachments" => config.download_attachments
           /\ pc = "videos" => config.download_videos
           /\ outcomes' = Append(outcomes, "Downloaded") =>
                 \A u \in {UrlA, UrlB, UrlD, UrlH} :
                    Count(u, requested') = passes(u)
           /\ (pc = "videos" /\ link \in downloaded_links /\ files' # files)
              => \E old \in files, n \in 1..Cardinality(files) :
                    /\ old.dir = post_path /\ old.src = link
                    /\ files' = files \cup
                          {[dir |-> post_path,
                            name |-> parts.base
                                     \o <<"_", "d", "u", "p", "l", "i", "c",
                                          "a", "t", "e">>
                                     \o Digits(n) \o parts.ext,
                            src |-> link]}
                    /\ Cardinality(files') = Cardinality(files) + 1)

C16_MediaGating == [][C16_Step]_vars

\* with both passes on, a returned call has requested an attachment URL
\* twice and holds two files of it
C16_Witness ==
    /\ config.download_attachments /\ config.download_videos
    /\ pc \in {"detail", "done"}
    /\ outcomes # <<>> /\ Last(outcomes) = "Downloaded"
    /\ \E f, g \in files :
          /\ f.dir = post_path /\ g.dir = post_path
          /\ f.src = g.src /\ f.name # g.name
          /\ Count(f.src, requested) = 2

C17_Step ==
    (pc = "detail" /\ folders' # folders) =>
       \A i \in 1..Len(info_browse') :
          /\ info_browse'[i].netloc = filtered_posts[post_idx].link.netloc
          /\ info_browse'[i].query = <<>>

\* C17: every browse URL that save_post_info writes for a post has the host
\* of the URL of that post and no query: nothing of it comes from the last
\* listing URL or its ?o= offset.
C17_BrowseFromPostUrl == [][C17_Step]_vars

\* the files of a folder that a media loop wrote
C18_MediaIn(fs, d) == {f \in fs : f.dir = d /\ f.src # InfoSrc}

C18_Step ==
    pc \in MediaLoops =>
       /\ files \subseteq files'
       /\ \A f \in files' \ files :
             ~\E g \in files : g.dir = f.dir /\ g.name = f.name
       /\ media_ok' # media_ok =>
             Cardinality(files') = Cardinality(files) + 1
       /\ config.save_info_txt =>
             \E f \in files' : f.dir = post_path /\ f.src = InfoSrc
       /\ Cardinality(C18_MediaIn(files', post_path)) = media_ok'

\* C18: a step of a media loop removes or replaces no file on disk: what it
\* writes goes to a path that held no file, the metadata document of the
\* call stays, every successful media request adds one file, and during and
\* after the call the folder holds as many media files as media requests of
\* the call have succeeded.
C18_NoOverwrite == [][C18_Step]_vars

\* a post without title was downloaded with both passes on and all three
\* requests succeeded: its folder holds Untitled.html, still the metadata
\* document, and three media files, two of them of the URL that resolves to
\* Untitled.html
C18_Witness ==
    /\ pc \in {"detail", "done"}
    /\ outcomes # <<>> /\ Last(outcomes) = "Downloaded"
    /\ media_ok = 3
    /\ [dir |-> post_path,
        name |-> <<"U", "n", "t", "i", "t", "l", "e", "d", ".", "h", "t", "m",
                   "l">>,
        src |-> InfoSrc] \in files
    /\ Cardinality({f \in files : f.dir = post_path /\ f.src = UrlH}) = 2
    /\ Cardinality(C18_MediaIn(files, post_path)) = 3

\* C19: until the walk and the filter are over, the index is not written, no
\* download_content call has been made and the disk is untouched; from then
\* on the index has been written exactly once and holds the filtered posts,
\* whatever the calls do; the calls are made one at a time in filtered
\* order, call k for entry k, and a run that has ended has made the call of
\* every entry.
C19_PhaseOrdering ==
    /\ pc \in {"walk", "filter"} =>
          /\ index_writes = 0
          /\ post_idx = 0 /\ outcomes = <<>>
          /\ folders = {} /\ files = {}
    /\ pc \notin {"walk", "filter"} =>
          /\ index_writes = 1
          /\ posts_info = save_posts_to_file(filtered_posts)
    /\ pc \in {"detail"} \cup MediaLoops =>
          /\ post_idx \in 1..Len(filtered_posts)
          /\ Len(outcomes) = post_idx - 1
    /\ pc \in {"done", "crashed"} => post_idx = Len(filtered_posts)

====
